---- MODULE Spec2Model ----
(***************************************************************************)
(* Model of goose's raw-SQL migration runner (migration_sql.go):           *)
(* runSQLMigration, execQuery, verboseInfo and clearStatement, together    *)
(* with the database/sql objects they drive (the transaction, the direct   *)
(* connection, the context) and the goroutine execQuery starts in verbose  *)
(* mode.                                                                   *)
(***************************************************************************)
EXTENDS Integers, Sequences, FiniteSets, TLC

(* ---------------------------------------------------------------- bounds *)
\* longest statement list handed to runSQLMigration
MaxStmts == 2
\* most polling intervals that elapse during one execQuery call
MaxTicks == 1

\* longest statement text given to clearStatement on its own
MaxLen == 4

(* ------------------------------------------------------------ statements *)
\* A statement text is a sequence of characters.
CommentedStmt == <<"-", "-", "c", "\n", "a">>
PlainStmt == <<"b">>
StmtPool == {CommentedStmt, PlainStmt}

\* The characters clearStatement tells apart: the comment marker, any other
\* character, and the two line-end characters.
Alphabet == {"-", "a", "\n", "\r"}
Texts == UNION {[1..k -> Alphabet] : k \in 0..MaxLen}

StatementLists == UNION {[1..k -> StmtPool] : k \in 0..MaxStmts}

Versions == {1, 2}

\* The version tables the call may find.
Row(ver, applied) == [version_id |-> ver, is_applied |-> applied]
VersionTables == {<< >>, <<Row(1, TRUE)>>, <<Row(1, TRUE), Row(2, TRUE)>>}

\* Errors the database can answer with; "nil" is Go's nil error.
DbErrs == {"dberr"}
CtxErr == "ctxerr"
\* The error tx.Rollback() answers with when it fails.
RollbackErr == "rollbackerr"

(* -------------------------------------------------------- clearStatement *)
\* (?m)^ : at the start of the text or right after a "\n"
LineStart(s, p) == p = 1 \/ s[p - 1] = "\n"

\* (?m)$ : at the end of the text or right before a "\n"
LineEnd(s, p) == p = Len(s) + 1 \/ s[p] = "\n"

\* .* : the first position at or after p that holds a "\n", or the end
RECURSIVE SkipLine(_, _)
SkipLine(s, p) ==
  IF p > Len(s) \/ s[p] = "\n" THEN p ELSE SkipLine(s, p + 1)

\* [\r\n]* : the first position at or after p holding neither "\r" nor "\n"
RECURSIVE SkipEOL(_, _)
SkipEOL(s, p) ==
  IF p <= Len(s) /\ s[p] \in {"\r", "\n"} THEN SkipEOL(s, p + 1) ELSE p

\* matchSQLComments.ReplaceAllString(s, ``), scanning from position p
RECURSIVE StripComments(_, _)
StripComments(s, p) ==
  IF p > Len(s) THEN << >>
  ELSE IF LineStart(s, p) /\ p + 1 <= Len(s) /\ s[p] = "-" /\ s[p + 1] = "-"
       THEN StripComments(s, SkipEOL(s, SkipLine(s, p + 2)))
       ELSE <<s[p]>> \o StripComments(s, p + 1)

\* matchEmptyEOL.ReplaceAllString(s, ``), scanning from position p
RECURSIVE StripEmptyEOL(_, _)
StripEmptyEOL(s, p) ==
  IF p > Len(s) THEN << >>
  ELSE IF LineStart(s, p) /\ LineEnd(s, p)
       THEN StripEmptyEOL(s, SkipEOL(s, p))
       ELSE <<s[p]>> \o StripEmptyEOL(s, p + 1)

clearStatement(s) == StripEmptyEOL(StripComments(s, 1), 1)

(* ----------------------------------------------------------------- state *)
VARIABLES
  statements,    \* runSQLMigration's arguments
  useTx,
  v,
  direction,
  noVersioning,
  verbose,       \* the package's verbose flag
  ctxDone,       \* ctx has been cancelled
  pc,            \* where runSQLMigration stands
  i,             \* index of the range loop over statements
  cur,           \* the execQuery call in progress: its query, args and executor
  execErr,       \* what the last execQuery call returned
  ret,           \* what runSQLMigration returned
  gpc,           \* where execQuery's goroutine stands
  gerr,          \* the goroutine's err, to be sent on ch
  fn,            \* the executor call: "idle" or "running"
  fnCancelled,   \* ctx was already cancelled when the executor was called
  elapsed,       \* polling intervals elapsed since t := time.Now()
  txState,       \* the *sql.Tx
  txData,        \* what the transaction has written, not yet committed
  txVersions,
  dbData,        \* committed: the statements applied, in order
  dbVersions,    \* committed: the version table
  dbVersions0,   \* the version table before the call
  trace,         \* every call into database/sql, in order
  logged,        \* lines written by log.Printf
  spawned,       \* goroutines started
  received,      \* messages received from ch
  stmt,          \* clearStatement on its own: the text s it is given
  cleared        \* and the results of applying it again and again

inputs == <<statements, useTx, v, direction, noVersioning, verbose>>
db == <<dbData, dbVersions, dbVersions0>>
tx == <<txState, txData, txVersions>>
clr == <<stmt, cleared>>
vars == <<statements, useTx, v, direction, noVersioning, verbose, ctxDone, pc,
          i, cur, execErr, ret, gpc, gerr, fn, fnCancelled, elapsed, txState,
          txData, txVersions, dbData, dbVersions, dbVersions0, trace, logged,
          spawned, received, stmt, cleared>>

(* ------------------------------------------------------- dialect and SQL *)
insertVersionSQL == <<"INSERT_VERSION">>
deleteVersionSQL == <<"DELETE_VERSION">>

\* What a successfully executed (query, args) does to the data and the
\* version table it runs against.
ApplyData(data, query) ==
  IF query \in {insertVersionSQL, deleteVersionSQL} THEN data
  ELSE Append(data, query)

ApplyVersions(versions, query, args) ==
  IF query = insertVersionSQL THEN Append(versions, Row(args[1], args[2]))
  ELSE IF query = deleteVersionSQL
       THEN SelectSeq(versions, LAMBDA r : r.version_id # args[1])
       ELSE versions

(* ------------------------------------------------------ records and logs *)
NoCall == [site |-> "none", idx |-> 0, query |-> << >>, args |-> << >>, via |-> "none"]
StmtCall(k) ==
  [site |-> "stmt", idx |-> k, query |-> statements[k], args |-> << >>,
   via |-> IF useTx THEN "tx" ELSE "db"]
\* Bug variant of InsertCall: insert-version sent over the direct connection.
InsertCall_ViaDb ==
  [site |-> "insert", idx |-> 0, query |-> insertVersionSQL,
   args |-> <<v, direction>>, via |-> "db"]
InsertCall ==
  [site |-> "insert", idx |-> 0, query |-> insertVersionSQL,
   args |-> <<v, direction>>, via |-> IF useTx THEN "tx" ELSE "db"]
DeleteCall ==
  [site |-> "delete", idx |-> 0, query |-> deleteVersionSQL,
   args |-> <<v>>, via |-> IF useTx THEN "tx" ELSE "db"]

Ev(e, c, err) ==
  [ev |-> e, site |-> c.site, idx |-> c.idx, query |-> c.query,
   args |-> c.args, via |-> c.via, err |-> err]
TxEv(e, err) ==
  [ev |-> e, site |-> "tx", idx |-> 0, query |-> << >>, args |-> << >>,
   via |-> "tx", err |-> err]

NoRet == [kind |-> "none", query |-> << >>, cause |-> "nil"]
NilRet == [kind |-> "nil", query |-> << >>, cause |-> "nil"]
Errorf(kind, query, cause) == [kind |-> kind, query |-> query, cause |-> cause]

Line(msg, text, n) == [msg |-> msg, text |-> text, elapsed |-> n]

\* Bug variant of verboseInfo: the verbose flag is not looked at.
verboseInfo_Always(lg, line) == Append(lg, line)

\* verboseInfo: log.Printf only when verbose
verboseInfo(lg, line) == IF verbose THEN Append(lg, line) ELSE lg

(* ------------------------------------------------------------------ Init *)
Init ==
  /\ statements \in StatementLists
  /\ useTx \in BOOLEAN
  /\ v \in Versions
  /\ direction \in BOOLEAN
  /\ noVersioning \in BOOLEAN
  /\ verbose \in BOOLEAN
  /\ ctxDone = FALSE
  /\ pc = "start"
  /\ i = 1
  /\ cur = NoCall
  /\ execErr = "nil"
  /\ ret = NoRet
  /\ gpc = "none"
  /\ gerr = "nil"
  /\ fn = "idle"
  /\ fnCancelled = FALSE
  /\ elapsed = 0
  /\ txState = "none"
  /\ txData = << >>
  /\ txVersions = << >>
  /\ dbData = << >>
  /\ dbVersions \in VersionTables
  /\ dbVersions0 = dbVersions
  /\ trace = << >>
  /\ logged = << >>
  /\ spawned = 0
  /\ received = 0
  /\ stmt = << >>
  /\ cleared = << >>

(* ------------------------------------------------------------- execQuery *)
\* The caller enters execQuery(ctx, fn, query, args...) with call c.
\* Quiet: fn is called on the caller's own flow.  Verbose: ch is made, the
\* goroutine is started and t := time.Now() is taken.
ExecQueryEnter(c) ==
  /\ cur' = c
  /\ elapsed' = 0
  /\ IF ~verbose
     THEN /\ fn' = "running"
          /\ fnCancelled' = ctxDone
          /\ trace' = Append(trace, Ev("start", c, "nil"))
          /\ pc' = "sync"
          /\ UNCHANGED <<gpc, spawned>>
     ELSE /\ gpc' = "spawned"
          /\ spawned' = spawned + 1
          /\ pc' = "select"
          /\ UNCHANGED <<fn, fnCancelled, trace>>

\* The goroutine calls fn(ctx, query, args...).
GoCall ==
  /\ gpc = "spawned"
  /\ gpc' = "running"
  /\ fn' = "running"
  /\ fnCancelled' = ctxDone
  /\ trace' = Append(trace, Ev("start", cur, "nil"))
  /\ UNCHANGED <<inputs, clr, ctxDone, pc, i, cur, execErr, ret, gerr, elapsed, tx,
                 db, logged, spawned, received>>

\* fn's result reaches the flow that called it: the caller of execQuery
\* (quiet), or the goroutine, which goes on to send it on ch (verbose).
FnResult(e) ==
  /\ fn' = "idle"
  /\ IF ~verbose
     THEN /\ execErr' = e
          /\ pc' = "ret"
          /\ UNCHANGED <<gpc, gerr>>
     ELSE /\ gerr' = e
          /\ gpc' = "send"
          /\ UNCHANGED <<execErr, pc>>

\* The executor (tx.ExecContext or db.ExecContext) executes the statement.
FnOk ==
  /\ fn = "running"
  /\ ~fnCancelled
  /\ IF cur.via = "tx"
     THEN /\ txData' = ApplyData(txData, cur.query)
          /\ txVersions' = ApplyVersions(txVersions, cur.query, cur.args)
          /\ UNCHANGED <<txState, db>>
     ELSE /\ dbData' = ApplyData(dbData, cur.query)
          /\ dbVersions' = ApplyVersions(dbVersions, cur.query, cur.args)
          /\ UNCHANGED <<dbVersions0, tx>>
  /\ trace' = Append(trace, Ev("ok", cur, "nil"))
  /\ FnResult("nil")
  /\ UNCHANGED <<inputs, clr, ctxDone, i, cur, ret, fnCancelled, elapsed, logged,
                 spawned, received>>

\* The executor fails: the statement has no effect.
FnErr ==
  /\ fn = "running"
  /\ \E e \in DbErrs \cup (IF ctxDone THEN {CtxErr} ELSE {}) :
       /\ trace' = Append(trace, Ev("err", cur, e))
       /\ FnResult(e)
  /\ UNCHANGED <<inputs, clr, ctxDone, i, cur, ret, fnCancelled, elapsed, tx, db,
                 logged, spawned, received>>

\* Bug variant of Receive: the message is taken from ch and nil is returned.
Receive_DropsErr ==
  /\ pc = "select"
  /\ gpc = "send"
  /\ execErr' = "nil"
  /\ gpc' = "exited"
  /\ received' = received + 1
  /\ pc' = "ret"
  /\ UNCHANGED <<inputs, clr, ctxDone, i, cur, ret, gerr, fn, fnCancelled, elapsed,
                 tx, db, trace, logged, spawned>>

\* Bug variant of Receive: the select also has a case <-ctx.Done() that
\* returns ctx.Err() without waiting for the goroutine's message.
Receive_OnCtxDone ==
  /\ pc = "select"
  /\ \/ /\ gpc = "send"
        /\ execErr' = gerr
        /\ gpc' = "exited"
        /\ received' = received + 1
     \/ /\ ctxDone
        /\ execErr' = CtxErr
        /\ UNCHANGED <<gpc, received>>
  /\ pc' = "ret"
  /\ UNCHANGED <<inputs, clr, ctxDone, i, cur, ret, gerr, fn, fnCancelled, elapsed,
                 tx, db, trace, logged, spawned>>

\* case err := <-ch: return err
Receive ==
  /\ pc = "select"
  /\ gpc = "send"
  /\ execErr' = gerr
  /\ gpc' = "exited"
  /\ received' = received + 1
  /\ pc' = "ret"
  /\ UNCHANGED <<inputs, clr, ctxDone, i, cur, ret, gerr, fn, fnCancelled, elapsed,
                 tx, db, trace, logged, spawned>>

\* Bug variant of Tick: execQuery gives up after a polling interval and
\* returns a timeout error while the executor call is still under way.
Tick_GivesUp ==
  /\ pc = "select"
  /\ elapsed < MaxTicks
  /\ elapsed' = elapsed + 1
  /\ logged' = verboseInfo(logged,
                 Line("Executing statement still in progress for %v", << >>, elapsed + 1))
  /\ pc' = "ret"
  /\ execErr' = "timeout"
  /\ UNCHANGED <<inputs, clr, ctxDone, i, cur, ret, gpc, gerr, fn,
                 fnCancelled, tx, db, trace, spawned, received>>

\* case <-time.Tick(time.Minute): verboseInfo("... still in progress ...")
Tick ==
  /\ pc = "select"
  /\ elapsed < MaxTicks
  /\ elapsed' = elapsed + 1
  /\ logged' = verboseInfo(logged,
                 Line("Executing statement still in progress for %v", << >>, elapsed + 1))
  /\ UNCHANGED <<inputs, clr, ctxDone, pc, i, cur, execErr, ret, gpc, gerr, fn,
                 fnCancelled, tx, db, trace, spawned, received>>

(* ------------------------------------------------------- runSQLMigration *)
\* useTx: db.BeginTx succeeds.
BeginTxOk ==
  /\ pc = "start"
  /\ useTx
  /\ ~ctxDone
  /\ logged' = verboseInfo(logged, Line("Begin transaction", << >>, 0))
  /\ txState' = "open"
  /\ txData' = dbData
  /\ txVersions' = dbVersions
  /\ trace' = Append(trace, TxEv("begin_ok", "nil"))
  /\ pc' = "loop"
  /\ UNCHANGED <<inputs, clr, ctxDone, i, cur, execErr, ret, gpc, gerr, fn,
                 fnCancelled, elapsed, db, spawned, received>>

\* Bug variant of BeginTxFail: the begin error is dropped and the loop entered.
BeginTxFail_Ignored ==
  /\ pc = "start"
  /\ useTx
  /\ logged' = verboseInfo(logged, Line("Begin transaction", << >>, 0))
  /\ \E e \in DbErrs \cup (IF ctxDone THEN {CtxErr} ELSE {}) :
       trace' = Append(trace, TxEv("begin_err", e))
  /\ pc' = "loop"
  /\ UNCHANGED <<inputs, clr, ctxDone, i, cur, execErr, ret, gpc, gerr, fn,
                 fnCancelled, elapsed, tx, db, spawned, received>>

\* useTx: db.BeginTx fails; "failed to begin transaction" is returned.
BeginTxFail ==
  /\ pc = "start"
  /\ useTx
  /\ logged' = verboseInfo(logged, Line("Begin transaction", << >>, 0))
  /\ \E e \in DbErrs \cup (IF ctxDone THEN {CtxErr} ELSE {}) :
       /\ trace' = Append(trace, TxEv("begin_err", e))
       /\ ret' = Errorf("begin", << >>, e)
  /\ pc' = "done"
  /\ UNCHANGED <<inputs, clr, ctxDone, i, cur, execErr, gpc, gerr, fn, fnCancelled,
                 elapsed, tx, db, spawned, received>>

\* !useTx: straight to the loop over the direct connection.
NoTx ==
  /\ pc = "start"
  /\ ~useTx
  /\ pc' = "loop"
  /\ UNCHANGED <<inputs, clr, ctxDone, i, cur, execErr, ret, gpc, gerr, fn,
                 fnCancelled, elapsed, tx, db, trace, logged, spawned, received>>

\* for _, query := range statements: echo the statement, call execQuery.
LoopExec ==
  /\ pc = "loop"
  /\ i <= Len(statements)
  /\ logged' = verboseInfo(logged,
       Line(IF useTx THEN "Executing statement: %s\n" ELSE "Executing statement: %s",
            clearStatement(statements[i]), 0))
  /\ ExecQueryEnter(StmtCall(i))
  /\ UNCHANGED <<inputs, clr, ctxDone, i, execErr, ret, gerr, tx, db, received>>

\* execQuery returned nil for a statement: next iteration.
StmtOk ==
  /\ pc = "ret"
  /\ cur.site = "stmt"
  /\ execErr = "nil"
  /\ i' = i + 1
  /\ pc' = "loop"
  /\ UNCHANGED <<inputs, clr, ctxDone, cur, execErr, ret, gpc, gerr, fn, fnCancelled,
                 elapsed, tx, db, trace, logged, spawned, received>>

\* Bug variant of Rollback: tx.Commit() called where tx.Rollback() belongs.
Rollback_Commits(ok) ==
  /\ logged' = verboseInfo(logged, Line("Rollback transaction", << >>, 0))
  /\ txState' = IF ok THEN "rolledback" ELSE "rollbackfailed"
  /\ trace' = Append(trace, TxEv(IF ok THEN "rollback_ok" ELSE "rollback_err",
                                 IF ok THEN "nil" ELSE RollbackErr))
  /\ dbData' = txData
  /\ dbVersions' = txVersions
  /\ UNCHANGED <<txData, txVersions, dbVersions0>>

\* tx.Rollback(), its result dropped.  ok: whether the driver rolled back.
Rollback(ok) ==
  /\ logged' = verboseInfo(logged, Line("Rollback transaction", << >>, 0))
  /\ txState' = IF ok THEN "rolledback" ELSE "rollbackfailed"
  /\ trace' = Append(trace, TxEv(IF ok THEN "rollback_ok" ELSE "rollback_err",
                                 IF ok THEN "nil" ELSE RollbackErr))
  /\ UNCHANGED <<txData, txVersions, db>>

\* Bug variant of FailWith: a failed tx.Rollback() is returned in place of the
\* error that caused it.
FailWith_RollbackMasks(err) ==
  /\ IF useTx
     THEN \E ok \in BOOLEAN :
            /\ Rollback(ok)
            /\ ret' = IF ok THEN err ELSE Errorf("rollback", << >>, RollbackErr)
     ELSE UNCHANGED <<tx, db, trace, logged>> /\ ret' = err
  /\ pc' = "done"

\* What runSQLMigration does with a failed execQuery in either mode:
\* roll back when in a transaction, then return the wrapped error.
FailWith(err) ==
  /\ IF useTx
     THEN \E ok \in BOOLEAN : Rollback(ok)
     ELSE UNCHANGED <<tx, db, trace, logged>>
  /\ ret' = err
  /\ pc' = "done"

\* Bug variant of StmtFail: the error is dropped and the loop goes on.
StmtFail_Continue ==
  /\ pc = "ret"
  /\ cur.site = "stmt"
  /\ execErr # "nil"
  /\ i' = i + 1
  /\ pc' = "loop"
  /\ UNCHANGED <<inputs, clr, ctxDone, cur, execErr, ret, gpc, gerr, fn, fnCancelled,
                 elapsed, tx, db, trace, logged, spawned, received>>

\* Bug variant of StmtFail: the failed statement is tried again.
StmtFail_Retry ==
  /\ pc = "ret"
  /\ cur.site = "stmt"
  /\ execErr # "nil"
  /\ pc' = "loop"
  /\ UNCHANGED <<inputs, clr, ctxDone, i, cur, execErr, ret, gpc, gerr, fn,
                 fnCancelled, elapsed, tx, db, trace, logged, spawned, received>>

\* Bug variant of StmtFail: the error carries the statement as written, not
\* its sanitized text.
StmtFail_Unsanitized ==
  /\ pc = "ret"
  /\ cur.site = "stmt"
  /\ execErr # "nil"
  /\ FailWith(Errorf("stmt", cur.query, execErr))
  /\ UNCHANGED <<inputs, clr, ctxDone, i, cur, execErr, gpc, gerr, fn, fnCancelled,
                 elapsed, spawned, received>>

\* execQuery returned an error for a statement.
StmtFail ==
  /\ pc = "ret"
  /\ cur.site = "stmt"
  /\ execErr # "nil"
  /\ FailWith(Errorf("stmt", clearStatement(cur.query), execErr))
  /\ UNCHANGED <<inputs, clr, ctxDone, i, cur, execErr, gpc, gerr, fn, fnCancelled,
                 elapsed, spawned, received>>

\* Bug variant of LoopEnd: the loop may be left before its last iteration.
LoopEnd_Early ==
  /\ pc = "loop"
  /\ i >= Len(statements)
  /\ pc' = "version"
  /\ UNCHANGED <<inputs, clr, ctxDone, i, cur, execErr, ret, gpc, gerr, fn,
                 fnCancelled, elapsed, tx, db, trace, logged, spawned, received>>

\* The loop is over.
LoopEnd ==
  /\ pc = "loop"
  /\ i > Len(statements)
  /\ pc' = "version"
  /\ UNCHANGED <<inputs, clr, ctxDone, i, cur, execErr, ret, gpc, gerr, fn,
                 fnCancelled, elapsed, tx, db, trace, logged, spawned, received>>

\* Bug variant of Finish: nil is returned without tx.Commit() being called.
Finish_NoCommit == pc' = "done" /\ ret' = NilRet

\* After the bookkeeping step: commit in a transaction, else return nil.
Finish ==
  IF useTx
  THEN pc' = "commit" /\ UNCHANGED ret
  ELSE pc' = "done" /\ ret' = NilRet

\* Bug variant of VersionSkip: noVersioning is not looked at.
VersionSkip_Unchecked ==
  /\ pc = "version"
  /\ noVersioning
  /\ ExecQueryEnter(IF direction THEN InsertCall ELSE DeleteCall)
  /\ UNCHANGED <<inputs, clr, ctxDone, i, execErr, ret, gerr, tx, db, logged, received>>

\* noVersioning: no bookkeeping.
VersionSkip ==
  /\ pc = "version"
  /\ noVersioning
  /\ Finish
  /\ UNCHANGED <<inputs, clr, ctxDone, i, cur, execErr, gpc, gerr, fn, fnCancelled,
                 elapsed, tx, db, trace, logged, spawned, received>>

\* Bug variant of VersionInsert: the direction test is inverted.
VersionInsert_Inverted ==
  /\ pc = "version"
  /\ ~noVersioning
  /\ direction
  /\ ExecQueryEnter(DeleteCall)
  /\ UNCHANGED <<inputs, clr, ctxDone, i, execErr, ret, gerr, tx, db, logged, received>>

\* !noVersioning, direction: execQuery(insertVersionSQL(), v, direction)
VersionInsert ==
  /\ pc = "version"
  /\ ~noVersioning
  /\ direction
  /\ ExecQueryEnter(InsertCall)
  /\ UNCHANGED <<inputs, clr, ctxDone, i, execErr, ret, gerr, tx, db, logged, received>>

\* !noVersioning, !direction: execQuery(deleteVersionSQL(), v)
VersionDelete ==
  /\ pc = "version"
  /\ ~noVersioning
  /\ ~direction
  /\ ExecQueryEnter(DeleteCall)
  /\ UNCHANGED <<inputs, clr, ctxDone, i, execErr, ret, gerr, tx, db, logged, received>>

\* The bookkeeping execQuery returned nil.
VersionOk ==
  /\ pc = "ret"
  /\ cur.site \in {"insert", "delete"}
  /\ execErr = "nil"
  /\ Finish
  /\ UNCHANGED <<inputs, clr, ctxDone, i, cur, execErr, gpc, gerr, fn, fnCancelled,
                 elapsed, tx, db, trace, logged, spawned, received>>

\* Bug variant of VersionFail: the bookkeeping error is dropped.
VersionFail_Swallowed ==
  /\ pc = "ret"
  /\ cur.site \in {"insert", "delete"}
  /\ execErr # "nil"
  /\ Finish
  /\ UNCHANGED <<inputs, clr, ctxDone, i, cur, execErr, gpc, gerr, fn, fnCancelled,
                 elapsed, tx, db, trace, logged, spawned, received>>

\* The bookkeeping execQuery returned an error.
VersionFail ==
  /\ pc = "ret"
  /\ cur.site \in {"insert", "delete"}
  /\ execErr # "nil"
  /\ FailWith(Errorf(cur.site, << >>, execErr))
  /\ UNCHANGED <<inputs, clr, ctxDone, i, cur, execErr, gpc, gerr, fn, fnCancelled,
                 elapsed, spawned, received>>

\* What a successful tx.Commit() makes visible.
CommitEffect ==
  /\ dbData' = txData
  /\ dbVersions' = txVersions
  /\ txState' = "committed"
  /\ UNCHANGED <<txData, txVersions, dbVersions0>>

\* tx.Commit() succeeds; return nil.
CommitOk ==
  /\ pc = "commit"
  /\ ~ctxDone
  /\ logged' = verboseInfo(logged, Line("Commit transaction", << >>, 0))
  /\ CommitEffect
  /\ trace' = Append(trace, TxEv("commit_ok", "nil"))
  /\ ret' = NilRet
  /\ pc' = "done"
  /\ UNCHANGED <<inputs, clr, ctxDone, i, cur, execErr, gpc, gerr, fn, fnCancelled,
                 elapsed, spawned, received>>

\* Bug variant of CommitFail: the result of tx.Commit() is dropped.
CommitFail_Ignored ==
  /\ pc = "commit"
  /\ logged' = verboseInfo(logged, Line("Commit transaction", << >>, 0))
  /\ txState' = "commitfailed"
  /\ \E e \in DbErrs \cup (IF ctxDone THEN {CtxErr} ELSE {}) :
       trace' = Append(trace, TxEv("commit_err", e))
  /\ ret' = NilRet
  /\ pc' = "done"
  /\ UNCHANGED <<inputs, clr, ctxDone, i, cur, execErr, gpc, gerr, fn, fnCancelled,
                 elapsed, txData, txVersions, db, spawned, received>>

\* Bug variant of CommitFail: tx.Rollback() is called after the failed commit.
CommitFail_ThenRollback ==
  /\ pc = "commit"
  /\ logged' = verboseInfo(logged, Line("Commit transaction", << >>, 0))
  /\ txState' = "commitfailed"
  /\ \E e \in DbErrs \cup (IF ctxDone THEN {CtxErr} ELSE {}) :
       /\ trace' = trace \o <<TxEv("commit_err", e), TxEv("rollback_err", RollbackErr)>>
       /\ ret' = Errorf("commit", << >>, e)
  /\ pc' = "done"
  /\ UNCHANGED <<inputs, clr, ctxDone, i, cur, execErr, gpc, gerr, fn, fnCancelled,
                 elapsed, txData, txVersions, db, spawned, received>>

\* tx.Commit() fails: nothing is committed; "failed to commit transaction".
CommitFail ==
  /\ pc = "commit"
  /\ logged' = verboseInfo(logged, Line("Commit transaction", << >>, 0))
  /\ txState' = "commitfailed"
  /\ \E e \in DbErrs \cup (IF ctxDone THEN {CtxErr} ELSE {}) :
       /\ trace' = Append(trace, TxEv("commit_err", e))
       /\ ret' = Errorf("commit", << >>, e)
  /\ pc' = "done"
  /\ UNCHANGED <<inputs, clr, ctxDone, i, cur, execErr, gpc, gerr, fn, fnCancelled,
                 elapsed, txData, txVersions, db, spawned, received>>

\* The caller's context is cancelled while the call is under way.
CancelCtx ==
  /\ pc # "done"
  /\ ~ctxDone
  /\ ctxDone' = TRUE
  /\ UNCHANGED <<inputs, clr, pc, i, cur, execErr, ret, gpc, gerr, fn, fnCancelled,
                 elapsed, tx, db, trace, logged, spawned, received>>

Next ==
  \/ BeginTxOk
  \/ BeginTxFail
  \/ NoTx
  \/ LoopExec
  \/ GoCall
  \/ FnOk
  \/ FnErr
  \/ Receive
  \/ Tick
  \/ StmtOk
  \/ StmtFail
  \/ LoopEnd
  \/ VersionSkip
  \/ VersionInsert
  \/ VersionDelete
  \/ VersionOk
  \/ VersionFail
  \/ CommitOk
  \/ CommitFail
  \/ CancelCtx

Spec == Init /\ [][Next]_vars

\* The same program under fair scheduling: a started goroutine gets to run,
\* and a select with a sender ready on ch takes the message.  The version
\* table and v play no part in execQuery and are fixed here.
LiveInit == Init /\ v = 1 /\ dbVersions = << >>
LiveSpec == LiveInit /\ [][Next]_vars /\ WF_vars(GoCall) /\ WF_vars(Receive)

(* ----------------------------------------- clearStatement on its own *)
\* clearStatement is given any text over the alphabet; no migration runs.
ClearInit ==
  /\ stmt \in Texts
  /\ cleared = << >>
  /\ statements = << >> /\ useTx = FALSE /\ v = 1 /\ direction = TRUE
  /\ noVersioning = TRUE /\ verbose = FALSE
  /\ ctxDone = FALSE /\ pc = "start" /\ i = 1 /\ cur = NoCall
  /\ execErr = "nil" /\ ret = NoRet /\ gpc = "none" /\ gerr = "nil"
  /\ fn = "idle" /\ fnCancelled = FALSE /\ elapsed = 0
  /\ txState = "none" /\ txData = << >> /\ txVersions = << >>
  /\ dbData = << >> /\ dbVersions = << >> /\ dbVersions0 = << >>
  /\ trace = << >> /\ logged = << >> /\ spawned = 0 /\ received = 0

\* s = clearStatement(s): applied to the text, then to its own result.
ClearApply ==
  /\ Len(cleared) < 2
  /\ cleared' = Append(cleared,
                  clearStatement(IF cleared = << >> THEN stmt
                                 ELSE cleared[Len(cleared)]))
  /\ UNCHANGED <<inputs, stmt, ctxDone, pc, i, cur, execErr, ret, gpc, gerr,
                 fn, fnCancelled, elapsed, tx, db, trace, logged, spawned,
                 received>>

ClearNext == ClearApply

ClearSpec == ClearInit /\ [][ClearNext]_vars

(* ------------------------------------------------ reading the trace *)
Returned == pc = "done"
Happened(e) == \E p \in DOMAIN trace : trace[p].ev = e
StmtFailedAt(k) ==
  \E p \in DOMAIN trace :
    trace[p].ev = "err" /\ trace[p].site = "stmt" /\ trace[p].idx = k
StmtSucceeded(k) ==
  \E p \in DOMAIN trace :
    trace[p].ev = "ok" /\ trace[p].site = "stmt" /\ trace[p].idx = k
AllStmtsSucceeded == \A k \in 1..Len(statements) : StmtSucceeded(k)
\* The range loop was entered and ran to its end, every statement answering nil.
LoopCompleted == (useTx => Happened("begin_ok")) /\ AllStmtsSucceeded
Bookkeeping == {"insert", "delete"}
BookkeepingStarts ==
  SelectSeq(trace, LAMBDA e : e.ev = "start" /\ e.site \in Bookkeeping)
BookkeepingFailed ==
  \E p \in DOMAIN trace : trace[p].ev = "err" /\ trace[p].site \in Bookkeeping
\* The version table once the bookkeeping change of this call is applied.
VersionsAfter ==
  IF direction THEN dbVersions0 \o <<[version_id |-> v, is_applied |-> TRUE]>>
  ELSE SelectSeq(dbVersions0, LAMBDA r : r.version_id # v)

(* ---------------------------------------------------------------- claims *)

\* C1: transactional mode, some statement of L failed, the call has returned:
\* no statement of L is visible in the committed data, the transaction was
\* never committed (rollback was called, commit was not), and the version
\* table is what it was before the call.
Thm_C1 ==
  (useTx /\ Returned /\ \E k \in 1..Len(statements) : StmtFailedAt(k))
    => /\ dbData = << >>
       /\ dbVersions = dbVersions0
       /\ txState \in {"rolledback", "rollbackfailed"}
       /\ ~Happened("commit_ok") /\ ~Happened("commit_err")

\* C1 witness: the second statement failed after the first had written inside
\* the transaction, and the call returned after rolling back.
Wit_C1 ==
  /\ useTx /\ Returned /\ StmtFailedAt(2) /\ StmtSucceeded(1)
  /\ Len(txData) = 1 /\ txState = "rolledback" /\ ret.kind = "stmt"

\* C2: transactional mode, versioning enabled, the call has returned with any
\* outcome: either every statement of L and the version change are committed
\* together, or no statement of L and no version change is; every statement
\* of L is visible exactly when the version change is.
Thm_C2 ==
  (useTx /\ ~noVersioning /\ Returned)
    => \/ /\ txState = "committed"
          /\ dbData = statements
          /\ dbVersions = VersionsAfter
       \/ /\ txState # "committed"
          /\ dbData = << >>
          /\ dbVersions = dbVersions0

\* C2 witness: a two-statement up migration committed with its version row.
Wit_C2 ==
  /\ useTx /\ ~noVersioning /\ Returned /\ direction
  /\ Len(statements) = 2 /\ dbData = statements
  /\ dbVersions = VersionsAfter /\ dbVersions # dbVersions0

\* C3: autocommit mode, the statement at position k failed, the call has
\* returned: exactly the statements before k are committed, no statement after
\* k and no bookkeeping operation was started, the statement error is
\* returned, and nothing was rolled back or compensated (the trace ends with
\* the failure).
Thm_C3 ==
  \A k \in 1..Len(statements) :
    (~useTx /\ Returned /\ StmtFailedAt(k))
      => /\ dbData = SubSeq(statements, 1, k - 1)
         /\ \A p \in DOMAIN trace :
              trace[p].ev = "start" => trace[p].site = "stmt" /\ trace[p].idx <= k
         /\ BookkeepingStarts = << >>
         /\ dbVersions = dbVersions0
         /\ ret.kind = "stmt" /\ ret.cause # "nil"
         /\ trace[Len(trace)].ev = "err" /\ trace[Len(trace)].idx = k
         /\ txState = "none"

\* C3 witness: autocommit, the second of two statements failed and the first
\* stays committed.
Wit_C3 ==
  /\ ~useTx /\ Returned /\ StmtFailedAt(2) /\ dbData = <<statements[1]>>
  /\ ~noVersioning

\* C4: with versioning disabled no insert-version or delete-version operation
\* is ever handed to the executor, in either mode and direction, and the
\* version table never changes.
Thm_C4 ==
  noVersioning
    => /\ \A p \in DOMAIN trace : trace[p].site \notin Bookkeeping
       /\ \A p \in DOMAIN trace :
            trace[p].query \notin {insertVersionSQL, deleteVersionSQL}
       /\ cur.site \notin Bookkeeping
       /\ dbVersions = dbVersions0

\* C4 witness: versioning disabled and a transactional call returned success
\* after its statements ran.
Wit_C4 ==
  /\ noVersioning /\ Returned /\ ret = NilRet /\ useTx
  /\ Len(statements) = 2 /\ dbData = statements

\* C5: the executor calls happen one at a time and in list order: every
\* started call is answered before anything else happens; statement k > 1 is
\* started directly after statement k - 1 answered nil, statement 1 directly
\* after begin (or first of all); the bookkeeping operation is started
\* directly after the last statement answered nil; commit is called directly
\* after the bookkeeping operation (or, without versioning, the last
\* statement) answered nil.  The text handed over at position k is L[k].
PrevOk(p, site, k) ==
  /\ p > 1
  /\ trace[p - 1].ev = "ok" /\ trace[p - 1].site = site /\ trace[p - 1].idx = k
AtBeginning(p) ==
  IF useTx THEN p = 2 /\ trace[1].ev = "begin_ok" ELSE p = 1
AfterLastStmt(p) ==
  IF Len(statements) = 0 THEN AtBeginning(p)
  ELSE PrevOk(p, "stmt", Len(statements))
Thm_C5 ==
  \A p \in DOMAIN trace :
    LET e == trace[p] IN
    /\ (e.ev = "start" /\ p < Len(trace))
         => /\ trace[p + 1].ev \in {"ok", "err"}
            /\ trace[p + 1].site = e.site /\ trace[p + 1].idx = e.idx
    /\ (e.ev = "start" /\ e.site = "stmt")
         => /\ e.idx \in 1..Len(statements)
            /\ e.query = statements[e.idx]
            /\ IF e.idx = 1 THEN AtBeginning(p) ELSE PrevOk(p, "stmt", e.idx - 1)
    /\ (e.ev = "start" /\ e.site \in Bookkeeping) => AfterLastStmt(p)
    /\ e.ev \in {"commit_ok", "commit_err"}
         => /\ useTx
            /\ IF noVersioning THEN AfterLastStmt(p)
               ELSE PrevOk(p, IF direction THEN "insert" ELSE "delete", 0)

\* C5 witness: verbose mode, two statements, bookkeeping and commit all done,
\* each statement on its own goroutine.
Wit_C5 ==
  /\ verbose /\ useTx /\ ~noVersioning /\ Returned /\ ret = NilRet
  /\ Len(statements) = 2 /\ spawned = 3 /\ Happened("commit_ok")

\* C6: versioning enabled, the transaction (if any) begun and every statement
\* of L successful: by the time the call returns exactly one bookkeeping
\* operation was started, insert-version with (v, true) for up and
\* delete-version with (v) for down; and at no time is there a second one or
\* one of the opposite direction.
Thm_C6 ==
  /\ (~noVersioning /\ Returned /\ LoopCompleted)
       => /\ Len(BookkeepingStarts) = 1
          /\ BookkeepingStarts[1].query =
               (IF direction THEN insertVersionSQL ELSE deleteVersionSQL)
          /\ BookkeepingStarts[1].args =
               (IF direction THEN <<v, TRUE>> ELSE <<v>>)
  /\ Len(BookkeepingStarts) <= 1
  /\ \A p \in DOMAIN trace :
       /\ trace[p].site = "insert" => direction
       /\ trace[p].site = "delete" => ~direction

\* C6 witness: a down migration whose statements all succeeded issued
\* delete-version once.
Wit_C6 ==
  /\ ~noVersioning /\ Returned /\ ~direction /\ Len(statements) = 2
  /\ LoopCompleted /\ Len(BookkeepingStarts) = 1
  /\ BookkeepingStarts[1].site = "delete"

\* C7: the bookkeeping operation failed after every statement succeeded and
\* the call has returned: the bookkeeping error is returned and the version
\* table is unchanged; in transactional mode rollback was called, commit was
\* not, and no statement of L is visible; in autocommit mode nothing happened
\* after the failure and every statement of L is committed.
Thm_C7 ==
  (Returned /\ BookkeepingFailed)
    => /\ AllStmtsSucceeded
       /\ ret.kind = (IF direction THEN "insert" ELSE "delete")
       /\ ret.cause # "nil"
       /\ dbVersions = dbVersions0
       /\ IF useTx
          THEN /\ dbData = << >>
               /\ trace[Len(trace)].ev \in {"rollback_ok", "rollback_err"}
               /\ trace[Len(trace) - 1].ev = "err"
               /\ ~Happened("commit_ok") /\ ~Happened("commit_err")
          ELSE /\ dbData = statements
               /\ trace[Len(trace)].ev = "err"
               /\ trace[Len(trace)].site \in Bookkeeping

\* C7 witness: transactional up migration, both statements ran, insert-version
\* failed, the call returned.
Wit_C7 ==
  /\ Returned /\ BookkeepingFailed /\ useTx /\ direction
  /\ Len(statements) = 2 /\ Len(txData) = 2 /\ ret.kind = "insert"

\* C8: commit failed after the statements and the bookkeeping operation
\* succeeded: the call returns the commit error, which is none of the begin,
\* statement and bookkeeping errors, and neither a statement of L nor the
\* version change is visible.
Thm_C8 ==
  (Returned /\ Happened("commit_err"))
    => /\ AllStmtsSucceeded
       /\ ret.kind = "commit"
       /\ ret.kind \notin {"nil", "begin", "stmt", "insert", "delete"}
       /\ ret.cause # "nil"
       /\ dbData = << >>
       /\ dbVersions = dbVersions0

\* C8 witness: two statements and insert-version succeeded inside the
\* transaction, then commit failed.
Wit_C8 ==
  /\ Returned /\ Happened("commit_err") /\ ~noVersioning /\ direction
  /\ Len(statements) = 2 /\ Len(txData) = 2 /\ txVersions # dbVersions0

\* C9: the transaction could not be begun: the begin error is returned, the
\* failed begin is the only call ever made into the database (no statement,
\* no bookkeeping, no commit, no rollback), and the database is unchanged.
Thm_C9 ==
  Happened("begin_err")
    => /\ useTx
       /\ Len(trace) = 1
       /\ Returned /\ ret.kind = "begin" /\ ret.cause # "nil"
       /\ txState = "none"
       /\ dbData = << >> /\ dbVersions = dbVersions0
       /\ spawned = 0 /\ fn = "idle"

\* C9 witness: begin failed on a call that had statements to run.
Wit_C9 ==
  /\ Happened("begin_err") /\ Len(statements) = 2 /\ ~noVersioning /\ Returned

\* C10: each statement of L and the bookkeeping operation is started at most
\* once; after a statement or the bookkeeping operation failed nothing more is
\* started; and a call that saw a failure returns an error.
Thm_C10 ==
  /\ \A p, q \in DOMAIN trace :
       (/\ p # q
        /\ trace[p].ev = "start" /\ trace[q].ev = "start"
        /\ trace[p].site = trace[q].site)
         => trace[p].idx # trace[q].idx
  /\ \A p, q \in DOMAIN trace :
       (trace[p].ev = "err" /\ p < q) => trace[q].ev # "start"
  /\ (Returned /\ (Happened("err") \/ Happened("begin_err") \/ Happened("commit_err")))
       => ret.kind \notin {"nil", "none"} /\ ret.cause # "nil"

\* C10 witness: the first of two statements failed and the call returned.
Wit_C10 ==
  /\ Returned /\ StmtFailedAt(1) /\ Len(statements) = 2 /\ ~noVersioning
  /\ ret.kind = "stmt"

\* C11: once the call has returned, it returned nil exactly when every
\* statement answered nil, the bookkeeping operation (with versioning) answered
\* nil and, in transactional mode, begin and commit succeeded; then all of L
\* and the version change are committed.  In transactional mode nothing is
\* visible before the successful commit; in autocommit mode the committed
\* data is at every moment the list of statements answered nil so far, in
\* list order.
BookkeepingSucceeded ==
  \E p \in DOMAIN trace : trace[p].ev = "ok" /\ trace[p].site \in Bookkeeping
StmtsAnsweredNil ==
  SelectSeq(trace, LAMBDA e : e.ev = "ok" /\ e.site = "stmt")
Thm_C11 ==
  /\ Returned =>
       /\ (ret = NilRet) <=>
            /\ AllStmtsSucceeded
            /\ ~noVersioning => BookkeepingSucceeded
            /\ useTx => Happened("begin_ok") /\ Happened("commit_ok")
       /\ ret = NilRet =>
            /\ dbData = statements
            /\ dbVersions = (IF noVersioning THEN dbVersions0 ELSE VersionsAfter)
  /\ (useTx /\ ~Happened("commit_ok")) => dbData = << >> /\ dbVersions = dbVersions0
  /\ ~useTx =>
       /\ Len(dbData) = Len(StmtsAnsweredNil)
       /\ \A k \in DOMAIN dbData :
            dbData[k] = statements[k] /\ StmtsAnsweredNil[k].idx = k
       /\ ~BookkeepingSucceeded => dbVersions = dbVersions0

\* C11 witness: an autocommit down migration of two statements returned nil
\* with both statements and the version change committed.
Wit_C11 ==
  /\ Returned /\ ret = NilRet /\ ~useTx /\ ~noVersioning /\ ~direction
  /\ Len(statements) = 2 /\ dbData = statements /\ v = 1
  /\ dbVersions # dbVersions0 /\ dbVersions = VersionsAfter

\* C12: a statement or the bookkeeping operation failed inside the
\* transaction and the rollback that followed failed too: the error returned
\* is the statement error or the bookkeeping error of the failed operation,
\* wrapping the very error the executor answered with, and not the rollback's.
Thm_C12 ==
  (Returned /\ Happened("rollback_err"))
    => LET n == Len(trace) IN
       /\ n >= 3
       /\ trace[n].ev = "rollback_err" /\ trace[n].err = RollbackErr
       /\ trace[n - 1].ev = "err"
       /\ ret.kind = trace[n - 1].site
       /\ ret.kind \in {"stmt", "insert", "delete"}
       /\ ret.cause = trace[n - 1].err
       /\ ret.cause \in DbErrs \cup {CtxErr}
       /\ ret.cause # RollbackErr

\* C12 witness: the second statement failed on a cancelled context, rollback
\* failed, and the statement error came back.
Wit_C12 ==
  /\ Returned /\ Happened("rollback_err") /\ StmtFailedAt(2)
  /\ ret.kind = "stmt" /\ ret.cause = CtxErr /\ txState = "rollbackfailed"

\* C13: no failure is dropped except a failed rollback (every failed begin,
\* statement, bookkeeping operation or commit comes back as the call's error),
\* and in verbose mode a failed rollback is reported by a diagnostic line: a
\* line written for that failure, carrying the error tx.Rollback() answered.
ReportsRollbackFailure(l) == l.text = <<RollbackErr>>
Cex_C13 ==
  /\ (Returned /\ (Happened("err") \/ Happened("begin_err") \/ Happened("commit_err")))
       => ret.kind \notin {"nil", "none"} /\ ret.cause # "nil"
  /\ (verbose /\ Happened("rollback_err"))
       => \E k \in DOMAIN logged : ReportsRollbackFailure(logged[k])

\* C14: whenever execQuery has returned, in verbose and in quiet mode alike:
\* the executor was called exactly once for this call, with the query, the
\* arguments and the executor execQuery was given; the call was answered; and
\* what execQuery returned is what the executor answered (nil for nil, the
\* same error for an error).
ExecQueryReturned == pc = "ret"
StartsOf(c) ==
  SelectSeq(trace, LAMBDA e : e.ev = "start" /\ e.site = c.site /\ e.idx = c.idx)
Thm_C14 ==
  ExecQueryReturned
    => LET n == Len(trace) IN
       /\ n >= 2
       /\ trace[n - 1] = Ev("start", cur, "nil")
       /\ StartsOf(cur) = <<Ev("start", cur, "nil")>>
       /\ trace[n].ev \in {"ok", "err"}
       /\ trace[n].query = cur.query /\ trace[n].args = cur.args
       /\ trace[n].via = cur.via
       /\ trace[n].ev = "ok" <=> execErr = "nil"
       /\ execErr = trace[n].err

\* C14 witness: verbose mode, a polling interval elapsed, the executor answered
\* the bookkeeping call with an error and execQuery returned that error.
Wit_C14 ==
  /\ ExecQueryReturned /\ verbose /\ elapsed = 1 /\ execErr = "dberr"
  /\ cur.site = "insert" /\ cur.args = <<v, TRUE>>

\* C15: in verbose mode every execQuery call starts one goroutine and takes
\* one message from ch: while the call is waiting there is exactly one
\* goroutine more than messages received, and whenever execQuery is not
\* waiting (it has returned, also after the context was cancelled) every
\* goroutine started has handed over its message and exited, and no executor
\* call is running.  In quiet mode no goroutine is ever started.
ExecutorCalls == SelectSeq(trace, LAMBDA e : e.ev = "start")
ExecutorAnswers == SelectSeq(trace, LAMBDA e : e.ev \in {"ok", "err"})
Thm_C15 ==
  /\ ~verbose => spawned = 0 /\ received = 0 /\ gpc = "none"
  /\ verbose =>
       /\ spawned = Len(ExecutorCalls) + (IF gpc = "spawned" THEN 1 ELSE 0)
       /\ received = Len(ExecutorAnswers) - (IF gpc = "send" THEN 1 ELSE 0)
       /\ IF pc = "select"
          THEN spawned = received + 1 /\ gpc \in {"spawned", "running", "send"}
          ELSE /\ spawned = received
               /\ gpc \in {"none", "exited"}
               /\ fn = "idle"

\* C15 witness: the context was cancelled while the second statement ran on
\* its goroutine, the executor answered with the context's error, execQuery
\* returned it, and both goroutines have exited.
Wit_C15 ==
  /\ verbose /\ ctxDone /\ pc = "ret" /\ execErr = CtxErr /\ ~fnCancelled
  /\ cur.idx = 2 /\ spawned = 2 /\ received = 2 /\ gpc = "exited"

\* C16: execQuery has no timeout of its own.  It returns only in a step in
\* which the executor's answer to this call is in hand (received from ch in
\* verbose mode), and a polling interval that elapses leaves it waiting.
\* Under fair scheduling, if the executor call always completes in the end,
\* an execQuery call that is waiting returns in the end.
ExecQueryWaiting == pc \in {"sync", "select"}
ReturnsOnlyWithAnswer ==
  [][(ExecQueryWaiting /\ pc' = "ret")
       => /\ fn' = "idle"
          /\ Len(trace') > 0
          /\ trace'[Len(trace')].ev \in {"ok", "err"}
          /\ trace'[Len(trace')].site = cur.site
          /\ trace'[Len(trace')].idx = cur.idx
          /\ execErr' = trace'[Len(trace')].err
          /\ verbose => gpc = "send" /\ gpc' = "exited"]_vars
IntervalKeepsWaiting ==
  [][(elapsed' = elapsed + 1) => (pc = "select" /\ pc' = "select")]_vars
Thm_C16 ==
  /\ ReturnsOnlyWithAnswer
  /\ IntervalKeepsWaiting
  /\ WF_vars(FnOk \/ FnErr) => (ExecQueryWaiting ~> ExecQueryReturned)

\* C16 witness: verbose mode, every polling interval of the bound elapsed
\* while the statement ran, the context was cancelled, the executor answered
\* with the context's error and only then did execQuery return.
Wit_C16 ==
  /\ verbose /\ ExecQueryReturned /\ elapsed = MaxTicks /\ ctxDone
  /\ execErr = CtxErr /\ gpc = "exited" /\ cur.site = "stmt"

\* C17: in quiet mode nothing is ever logged.  Every polling interval that
\* elapses adds exactly one progress line, and a progress line is added only
\* in verbose mode, by a step that finds execQuery waiting for its result and
\* leaves it waiting: none once the result has been received.
ProgressFormat == "Executing statement still in progress for %v"
ProgressAdded ==
  /\ Len(logged') = Len(logged) + 1
  /\ logged'[Len(logged')].msg = ProgressFormat
Thm_C17 ==
  [][/\ ~verbose => logged' = << >>
     /\ (elapsed' = elapsed + 1)
          => logged' = Append(logged, Line(ProgressFormat, << >>, elapsed'))
     /\ ProgressAdded
          => /\ verbose
             /\ elapsed' = elapsed + 1
             /\ pc = "select" /\ pc' = "select"
             /\ received' = received /\ execErr' = execErr /\ cur' = cur]_vars

\* C17 witness: verbose mode, a polling interval has just elapsed while the
\* goroutine's executor call is still running, and the log ends with the
\* progress line.
Wit_C17 ==
  /\ verbose /\ pc = "select" /\ gpc = "running" /\ fn = "running"
  /\ elapsed = 1 /\ Len(logged) > 0
  /\ logged[Len(logged)] = Line(ProgressFormat, << >>, 1)

\* C18: clearStatement is idempotent: for every text over the alphabet,
\* clearing the cleared text gives the cleared text again.
Cex_C18 == Len(cleared) = 2 => cleared[2] = cleared[1]

\* C19: a statement of L failed and the call has returned: the failed
\* statement is the first and only one that failed (every earlier one answered
\* nil, no later one was started), and the error returned is the statement
\* error carrying the sanitized text of that statement and the error the
\* executor answered with.  At all times the text handed to the executor for
\* statement k is L[k] as written, not its sanitized form.
Thm_C19 ==
  /\ \A k \in 1..Len(statements) :
       (Returned /\ StmtFailedAt(k))
         => /\ \A j \in 1..Len(statements) :
                 /\ j < k => StmtSucceeded(j) /\ ~StmtFailedAt(j)
                 /\ j > k => ~StmtSucceeded(j) /\ ~StmtFailedAt(j)
            /\ ret.kind = "stmt"
            /\ ret.query = clearStatement(statements[k])
            /\ \E p \in DOMAIN trace :
                 /\ trace[p].ev = "err" /\ trace[p].site = "stmt"
                 /\ trace[p].idx = k /\ ret.cause = trace[p].err
  /\ \A p \in DOMAIN trace :
       trace[p].site = "stmt" => trace[p].query = statements[trace[p].idx]

\* C19 witness: the second statement, which opens with a comment line, failed
\* after a different first statement succeeded; the error carries its
\* sanitized text, which is neither the text as written nor the first
\* statement's.
Wit_C19 ==
  /\ Returned /\ statements = <<PlainStmt, CommentedStmt>> /\ StmtFailedAt(2)
  /\ ret.query = <<"a">> /\ ret.query # statements[2]
  /\ ret.query # clearStatement(statements[1])

\* C20: a transaction that was begun is finished by one call, commit or
\* rollback, never by two; that call is the last call made into the database
\* and the function has returned right with it, so a begun transaction is
\* never left open at return; at most one transaction is begun, as the first
\* call of all.  In transactional mode every statement and the bookkeeping
\* operation go through the transaction; in autocommit mode all go through
\* the direct connection and no transaction is begun, committed or rolled back.
TxBegins == SelectSeq(trace, LAMBDA e : e.ev = "begin_ok")
TxFinishes ==
  SelectSeq(trace, LAMBDA e :
    e.ev \in {"commit_ok", "commit_err", "rollback_ok", "rollback_err"})
Thm_C20 ==
  /\ Len(TxBegins) <= 1 /\ Len(TxFinishes) <= 1
  /\ Len(TxFinishes) = 1
       => /\ Len(TxBegins) = 1 /\ trace[1].ev = "begin_ok"
          /\ trace[Len(trace)] = TxFinishes[1]
          /\ Returned
          /\ txState \in {"committed", "commitfailed", "rolledback", "rollbackfailed"}
  /\ (Returned /\ Len(TxBegins) = 1) => Len(TxFinishes) = 1
  /\ (~Returned /\ Len(TxBegins) = 1) => txState = "open"
  /\ \A p \in DOMAIN trace :
       trace[p].ev \in {"start", "ok", "err"}
         => trace[p].via = (IF useTx THEN "tx" ELSE "db")
  /\ useTx => (Len(TxBegins) = 1 <=> txState # "none")
  /\ ~useTx
       => /\ txState = "none" /\ txData = << >> /\ txVersions = << >>
          /\ \A p \in DOMAIN trace : trace[p].site # "tx"

\* C20 witness: two statements ran inside the transaction, the bookkeeping
\* operation failed, the transaction was rolled back and the call returned.
Wit_C20 ==
  /\ Returned /\ useTx /\ Len(statements) = 2 /\ BookkeepingFailed
  /\ Len(TxFinishes) = 1 /\ TxFinishes[1].ev = "rollback_ok"
  /\ txState = "rolledback"

====
